---------------------------- MODULE Spec2Model ----------------------------
(***************************************************************************)
(* Model of src/App.tsx: the CSV line parser, the record normalizer, the   *)
(* dataset fetcher/refresher and the filter/search/sort/paginate pipeline  *)
(* of the current App (lines 1-690).                                       *)
(*                                                                         *)
(* A JavaScript string is a sequence of one-character strings; '' is <<>>. *)
(* The four Korean column names are written as one-symbol strings:         *)
(*   <<"W">> = '작품명/지문명'   <<"T">> = '수록교재'                          *)
(*   <<"M">> = '대단원'          <<"S">> = '중단원'                            *)
(***************************************************************************)
EXTENDS Integers, Sequences, FiniteSets, TLC

VARIABLES
    \* --- React state of App (lines 310-318)
    data, searchTerm, filters, sortKey, isLoading, error, lastUpdated,
    currentPage, isInitialMount,
    \* --- environment of the fetch effect (lines 334-383)
    timer, issued, inflight,
    \* --- one run of parseCsvLine (lines 55-84)
    line, i, values, currentVal, inQuotes, returned,
    \* --- the fields, and which of them are quoted, that the line of a run encodes
    fields, quoted

appVars == <<data, searchTerm, filters, sortKey, isLoading, error, lastUpdated,
             currentPage, isInitialMount>>
envVars == <<timer, issued, inflight>>
scanVars == <<line, i, values, currentVal, inQuotes, returned, fields, quoted>>
vars == <<data, searchTerm, filters, sortKey, isLoading, error, lastUpdated,
          currentPage, isInitialMount, timer, issued, inflight,
          line, i, values, currentVal, inQuotes, returned, fields, quoted>>

-----------------------------------------------------------------------------
(* Bounds of the model *)

MaxLineLen == 5
MaxFetches == 2
MaxPage == 4
MaxRows == 45
\* Rows of the large sheet of the feed: the smallest sheet whose textbook "x" fills
\* more than one page.
FeedRows == 31
MaxFields == 2
MaxFieldLen == 2
MaxDataLen == 3

-----------------------------------------------------------------------------
(* Strings *)

QUOTE == "\""
COMMA == ","
SPACE == " "
LF == "\n"
CR == "\r"

Min(a, b) == IF a < b THEN a ELSE b
Max(a, b) == IF a > b THEN a ELSE b

\* All sequences over S of length at most n.
RECURSIVE SeqsUpTo(_, _)
SeqsUpTo(S, n) ==
    IF n = 0 THEN {<<>>}
    ELSE LET shorter == SeqsUpTo(S, n - 1)
         IN shorter \cup {Append(s, c) : s \in {t \in shorter : Len(t) = n - 1}, c \in S}

-----------------------------------------------------------------------------
(* parseCsvLine, lines 55-84 *)

\* State of the scanner before the loop (lines 56-58, 60).
ScanInit == [i |-> 0, values |-> <<>>, currentVal |-> <<>>, inQuotes |-> FALSE]

\* One iteration of the for loop, its i++ included (lines 60-80).
\* Index i is the code's 0-based index: line[i] is ln[st.i + 1].
ScanStepNoEscape(ln, st) ==
    LET char == ln[st.i + 1] IN
    IF char = QUOTE
    THEN [st EXCEPT !.inQuotes = ~@, !.i = @ + 1]
    ELSE IF char = COMMA /\ ~st.inQuotes
    THEN [st EXCEPT !.values = Append(@, st.currentVal), !.currentVal = <<>>, !.i = @ + 1]
    ELSE [st EXCEPT !.currentVal = Append(@, char), !.i = @ + 1]

ScanStepNoQuoteState(ln, st) ==
    LET char == ln[st.i + 1] IN
    IF char = QUOTE
    THEN [st EXCEPT !.inQuotes = ~@, !.i = @ + 1]
    ELSE IF char = COMMA
    THEN [st EXCEPT !.values = Append(@, st.currentVal), !.currentVal = <<>>, !.i = @ + 1]
    ELSE [st EXCEPT !.currentVal = Append(@, char), !.i = @ + 1]

\* Variant: two adjacent double quotes are a literal quote outside quotes too.
ScanStepEscapeAnywhere(ln, st) ==
    LET char == ln[st.i + 1] IN
    IF char = QUOTE
    THEN IF st.i + 2 <= Len(ln) /\ ln[st.i + 2] = QUOTE
         THEN [st EXCEPT !.currentVal = Append(@, QUOTE), !.i = @ + 2]
         ELSE [st EXCEPT !.inQuotes = ~@, !.i = @ + 1]
    ELSE IF char = COMMA /\ ~st.inQuotes
    THEN [st EXCEPT !.values = Append(@, st.currentVal), !.currentVal = <<>>, !.i = @ + 1]
    ELSE [st EXCEPT !.currentVal = Append(@, char), !.i = @ + 1]

\* Variant: the escaped quote is appended but the second quote is not skipped.
ScanStepNoSkip(ln, st) ==
    LET char == ln[st.i + 1] IN
    IF char = QUOTE
    THEN IF st.inQuotes /\ st.i + 2 <= Len(ln) /\ ln[st.i + 2] = QUOTE
         THEN [st EXCEPT !.currentVal = Append(@, QUOTE), !.i = @ + 1]
         ELSE [st EXCEPT !.inQuotes = ~@, !.i = @ + 1]
    ELSE IF char = COMMA /\ ~st.inQuotes
    THEN [st EXCEPT !.values = Append(@, st.currentVal), !.currentVal = <<>>, !.i = @ + 1]
    ELSE [st EXCEPT !.currentVal = Append(@, char), !.i = @ + 1]

ScanStep(ln, st) ==
    LET char == ln[st.i + 1] IN
    IF char = QUOTE
    THEN IF st.inQuotes /\ st.i + 2 <= Len(ln) /\ ln[st.i + 2] = QUOTE
         THEN [st EXCEPT !.currentVal = Append(@, QUOTE), !.i = @ + 2]
         ELSE [st EXCEPT !.inQuotes = ~@, !.i = @ + 1]
    ELSE IF char = COMMA /\ ~st.inQuotes
    THEN [st EXCEPT !.values = Append(@, st.currentVal), !.currentVal = <<>>, !.i = @ + 1]
    ELSE [st EXCEPT !.currentVal = Append(@, char), !.i = @ + 1]

\* The loop to its end, then the push of the last value (lines 60-83).
RECURSIVE ScanLoop(_, _)
ScanLoop(ln, st) ==
    IF st.i < Len(ln) THEN ScanLoop(ln, ScanStep(ln, st))
    ELSE Append(st.values, st.currentVal)

parseCsvLine(ln) == ScanLoop(ln, ScanInit)

-----------------------------------------------------------------------------
(* The parser run step by step: SpecParse *)

LineAlphabet == {"a", COMMA, QUOTE, SPACE}

\* The two lines of the specification's examples: a,"b,c",d and a,"b""c",d
ExampleLine1 == <<"a", COMMA, QUOTE, "b", COMMA, "c", QUOTE, COMMA, "d">>
ExampleLine2 == <<"a", COMMA, QUOTE, "b", QUOTE, QUOTE, "c", QUOTE, COMMA, "d">>

InputLines == SeqsUpTo(LineAlphabet, MaxLineLen) \cup {ExampleLine1, ExampleLine2}

ScanState == [i |-> i, values |-> values, currentVal |-> currentVal, inQuotes |-> inQuotes]

\* One iteration of the loop of parseCsvLine.
Scan ==
    /\ ~returned
    /\ i < Len(line)
    /\ LET st == ScanStep(line, ScanState) IN
        /\ i' = st.i
        /\ values' = st.values
        /\ currentVal' = st.currentVal
        /\ inQuotes' = st.inQuotes
    /\ UNCHANGED <<line, returned, fields, quoted>>
    /\ UNCHANGED <<appVars, envVars>>

\* The loop has ended: values.push(currentVal); return values (lines 81-83).
ScanReturn ==
    /\ ~returned
    /\ i >= Len(line)
    /\ values' = Append(values, currentVal)
    /\ returned' = TRUE
    /\ UNCHANGED <<line, i, currentVal, inQuotes, fields, quoted>>
    /\ UNCHANGED <<appVars, envVars>>

-----------------------------------------------------------------------------
(* Configuration, lines 41-49, 319 *)

ColW == <<"W">>
ColT == <<"T">>
ColM == <<"M">>
ColS == <<"S">>

SEARCHABLE_COLUMNS == <<ColW>>
FILTERABLE_COLUMNS == <<ColT, ColM, ColS>>
\* DISPLAY_COLUMNS[k].header of the code is DISPLAY_COLUMNS[k + 1] here.
DISPLAY_COLUMNS == <<ColW, ColT, ColM, ColS>>
ITEMS_PER_PAGE == 20

Range(s) == {s[k] : k \in 1..Len(s)}

\* FILTERABLE_COLUMNS.indexOf(column), 0-based, -1 when absent (line 404).
IndexOf(cols, column) ==
    IF \E k \in 1..Len(cols) : cols[k] = column
    THEN (CHOOSE k \in 1..Len(cols) : cols[k] = column /\ \A j \in 1..(k - 1) : cols[j] # column) - 1
    ELSE -1

-----------------------------------------------------------------------------
(* JavaScript string operations used by the code *)

Whitespace == {SPACE, LF, CR, "\t"}

\* String.prototype.trim
RECURSIVE TrimStart(_)
TrimStart(s) == IF s # <<>> /\ Head(s) \in Whitespace THEN TrimStart(Tail(s)) ELSE s
RECURSIVE TrimEnd(_)
TrimEnd(s) ==
    IF s # <<>> /\ s[Len(s)] \in Whitespace THEN TrimEnd(SubSeq(s, 1, Len(s) - 1)) ELSE s
Trim(s) == TrimEnd(TrimStart(s))

\* s.replace(/^"|"$/g, ''): a quote at the start and a quote at the end are removed
\* (lines 350, 357).
StripQuotes(s) ==
    LET a == IF s # <<>> /\ Head(s) = QUOTE THEN Tail(s) ELSE s
    IN IF a # <<>> /\ a[Len(a)] = QUOTE THEN SubSeq(a, 1, Len(a) - 1) ELSE a

\* s.replace(/""/g, '"'): pairs are matched left to right, without overlap (line 357).
RECURSIVE Unescape(_)
Unescape(s) ==
    IF Len(s) < 2 THEN s
    ELSE IF s[1] = QUOTE /\ s[2] = QUOTE THEN <<QUOTE>> \o Unescape(SubSeq(s, 3, Len(s)))
    ELSE <<s[1]>> \o Unescape(Tail(s))

\* The pieces of s between the positions of cuts (a set of indices of s), in order.
PiecesAt(s, cuts) ==
    LET bounds == cuts \cup {0, Len(s) + 1}
        NextCut(k) == CHOOSE m \in bounds : m > k /\ \A j \in bounds : j > k => m <= j
        starts == bounds \ {Len(s) + 1}
        Nth(n) == CHOOSE k \in starts : Cardinality({j \in starts : j < k}) = n - 1
    IN [n \in 1..Cardinality(starts) |-> SubSeq(s, Nth(n) + 1, NextCut(Nth(n)) - 1)]

\* s.split(',') (line 350)
SplitComma(s) == PiecesAt(s, {k \in 1..Len(s) : s[k] = COMMA})

\* s.split(/\r?\n/) (line 344): a line ends at "\n"; one "\r" right before it belongs
\* to the separator.
DropCR(piece) ==
    IF piece # <<>> /\ piece[Len(piece)] = CR THEN SubSeq(piece, 1, Len(piece) - 1) ELSE piece
SplitLines(s) ==
    LET pieces == PiecesAt(s, {k \in 1..Len(s) : s[k] = LF})
    IN [n \in 1..Len(pieces) |-> IF n < Len(pieces) THEN DropCR(pieces[n]) ELSE pieces[n]]

\* String.prototype.toLowerCase on the model's letters (lines 420, 436).
LowerChar(c) ==
    CASE c = "A" -> "a"
      [] c = "B" -> "b"
      [] c = "X" -> "x"
      [] OTHER -> c
ToLowerCase(s) == [k \in 1..Len(s) |-> LowerChar(s[k])]

\* String.prototype.includes (line 436)
Includes(s, t) == \E k \in 0..(Len(s) - Len(t)) : SubSeq(s, k + 1, k + Len(t)) = t

\* String.prototype.localeCompare(b, 'ko') (lines 443-455) on the model's characters:
\* the collation compares the primary weights first (punctuation before letters,
\* letters in alphabetical order whatever their case) and breaks a tie by case,
\* lower case first. The result is -1, 0 or 1.
Primary(c) ==
    CASE c = SPACE -> 1
      [] c = COMMA -> 2
      [] c = QUOTE -> 3
      [] c \in {"a", "A"} -> 10
      [] c \in {"b", "B"} -> 11
      [] c \in {"c", "C"} -> 12
      [] c \in {"d", "D"} -> 13
      [] c \in {"m"} -> 20
      [] c \in {"n"} -> 21
      [] c \in {"s"} -> 30
      [] c \in {"t"} -> 31
      [] c \in {"x", "X"} -> 40
      [] c \in {"y"} -> 41
      [] OTHER -> 50
Tertiary(c) == IF c \in {"A", "B", "C", "D", "X"} THEN 1 ELSE 0

\* Lexicographic comparison of two sequences of weights.
RECURSIVE LexCompare(_, _, _)
LexCompare(wa, wb, k) ==
    IF k > Len(wa) /\ k > Len(wb) THEN 0
    ELSE IF k > Len(wa) THEN -1
    ELSE IF k > Len(wb) THEN 1
    ELSE IF wa[k] < wb[k] THEN -1
    ELSE IF wa[k] > wb[k] THEN 1
    ELSE LexCompare(wa, wb, k + 1)

localeCompare(a, b) ==
    IF a = b THEN 0 ELSE
    LET p == LexCompare([k \in 1..Len(a) |-> Primary(a[k])],
                        [k \in 1..Len(b) |-> Primary(b[k])], 1)
    IN IF p # 0 THEN p
       ELSE LexCompare([k \in 1..Len(a) |-> Tertiary(a[k])],
                       [k \in 1..Len(b) |-> Tertiary(b[k])], 1)

-----------------------------------------------------------------------------
(* Record normalizer, lines 350-363 *)

\* lines[0].split(',').map(h => h.trim().replace(/^"|"$/g, '')) (line 350)
ParseHeaders(headerLine) ==
    LET parts == SplitComma(headerLine)
    IN [k \in 1..Len(parts) |-> StripQuotes(Trim(parts[k]))]

\* value.trim().replace(/^"|"$/g, '').replace(/""/g, '"') (line 357)
NormalizeValue(value) == Unescape(StripQuotes(Trim(value)))

\* values[index] || '' for the 0-based index (line 355)
ValueAt(vals, index) == IF index < Len(vals) THEN vals[index + 1] ELSE <<>>

\* Variant: the record is built over the fields of the line, not over the headers.
BuildRowOverValues(headers, vals) ==
    [h \in {headers[k] : k \in 1..Min(Len(headers), Len(vals))} |->
        LET last == CHOOSE k \in 1..Min(Len(headers), Len(vals)) :
                        headers[k] = h
                        /\ \A j \in (k + 1)..Min(Len(headers), Len(vals)) : headers[j] # h
        IN NormalizeValue(ValueAt(vals, last - 1))]

\* headers.reduce(...) (lines 354-359): a later header of the same name overwrites.
BuildRow(headers, vals) ==
    [h \in Range(headers) |->
        LET last == CHOOSE k \in 1..Len(headers) :
                        headers[k] = h /\ \A j \in (k + 1)..Len(headers) : headers[j] # h
        IN NormalizeValue(ValueAt(vals, last - 1))]

\* Object.values(row).some(value => value && value.trim() !== '') (line 362)
NotBlankRow(row) == \E h \in DOMAIN row : row[h] # <<>> /\ Trim(row[h]) # <<>>

\* lines.slice(1).map(...).filter(...) (lines 351-363)
ParseRows(lines) ==
    LET headers == ParseHeaders(lines[1])
        rows == [k \in 1..(Len(lines) - 1) |-> BuildRow(headers, parseCsvLine(lines[k + 1]))]
    IN SelectSeq(rows, NotBlankRow)

\* csvText.trim().split(/\r?\n/) (line 344)
BodyLines(csvText) == SplitLines(Trim(csvText))

-----------------------------------------------------------------------------
(* Filter / search / sort pipeline, lines 419-457 *)

\* a[col] || '' (lines 443-454)
OrEmpty(row, col) == IF col \in DOMAIN row THEN row[col] ELSE <<>>

\* filters[col] is truthy (lines 426-427, 469-470)
FilterActive(f, col) == col \in DOMAIN f /\ f[col] # <<>>

RowEqualsIgnoreCase(row, col, filterValue) ==
    col \in DOMAIN row /\ ToLowerCase(row[col]) = ToLowerCase(filterValue)

\* row[col] === filterValue (lines 428, 471)
RowEquals(row, col, filterValue) == col \in DOMAIN row /\ row[col] = filterValue

\* The loop over FILTERABLE_COLUMNS from position k (lines 425-430).
RECURSIVE ApplyFiltersFrom(_, _, _)
ApplyFiltersFrom(rows, f, k) ==
    IF k > Len(FILTERABLE_COLUMNS) THEN rows
    ELSE LET col == FILTERABLE_COLUMNS[k]
         IN ApplyFiltersFrom(
                IF FilterActive(f, col)
                THEN SelectSeq(rows, LAMBDA row : RowEquals(row, col, f[col]))
                ELSE rows,
                f, k + 1)

ApplyFilters(rows, f) == ApplyFiltersFrom(rows, f, 1)

\* SEARCHABLE_COLUMNS.some(col => row[col] && ...includes(lowercasedTerm)) (lines 435-437)
SearchMatches(row, term) ==
    \E k \in 1..Len(SEARCHABLE_COLUMNS) :
        LET col == SEARCHABLE_COLUMNS[k]
        IN /\ col \in DOMAIN row
           /\ row[col] # <<>>
           /\ Includes(ToLowerCase(row[col]), ToLowerCase(term))

ApplySearchInverted(rows, term) ==
    IF term = <<>> THEN SelectSeq(rows, LAMBDA row : SearchMatches(row, term)) ELSE rows

\* if (searchTerm) results = results.filter(...) (lines 433-439)
ApplySearch(rows, term) ==
    IF term # <<>> THEN SelectSeq(rows, LAMBDA row : SearchMatches(row, term)) ELSE rows

\* The comparator of the sort (lines 441-456).
SortCompareTwoLevels(key, a, b) ==
    IF key = DISPLAY_COLUMNS[2]
    THEN LET textbookCompare ==
                 localeCompare(OrEmpty(a, DISPLAY_COLUMNS[2]), OrEmpty(b, DISPLAY_COLUMNS[2]))
         IN IF textbookCompare # 0 THEN textbookCompare
            ELSE localeCompare(OrEmpty(a, DISPLAY_COLUMNS[4]), OrEmpty(b, DISPLAY_COLUMNS[4]))
    ELSE localeCompare(OrEmpty(a, key), OrEmpty(b, key))

SortCompare(key, a, b) ==
    IF key = DISPLAY_COLUMNS[2]
    THEN LET textbookCompare ==
                 localeCompare(OrEmpty(a, DISPLAY_COLUMNS[2]), OrEmpty(b, DISPLAY_COLUMNS[2]))
             mainUnitCompare ==
                 localeCompare(OrEmpty(a, DISPLAY_COLUMNS[3]), OrEmpty(b, DISPLAY_COLUMNS[3]))
         IN IF textbookCompare # 0 THEN textbookCompare
            ELSE IF mainUnitCompare # 0 THEN mainUnitCompare
            ELSE localeCompare(OrEmpty(a, DISPLAY_COLUMNS[4]), OrEmpty(b, DISPLAY_COLUMNS[4]))
    ELSE localeCompare(OrEmpty(a, key), OrEmpty(b, key))

\* A sort that puts the later of two elements that compare equal first.
SortRowsUnstable(key, rows) ==
    LET n == Len(rows)
        Before(j, k) ==
            LET c == SortCompare(key, rows[j], rows[k])
            IN c < 0 \/ (c = 0 /\ j > k)
        order == SortSeq([k \in 1..n |-> k], Before)
    IN [p \in 1..n |-> rows[order[p]]]

\* Array.prototype.sort with a consistent comparator (line 441): the sort is stable,
\* so the element at index k goes after the elements that compare less than it and
\* after the elements before it that compare equal to it.
SortRows(key, rows) ==
    LET n == Len(rows)
        Before(j, k) ==
            LET c == SortCompare(key, rows[j], rows[k])
            IN c < 0 \/ (c = 0 /\ j < k)
        order == SortSeq([k \in 1..n |-> k], Before)
    IN [p \in 1..n |-> rows[order[p]]]

\* The derivation with a record dropped when it equals the one before it.
FilteredDataDistinct(d, term, f, key) ==
    LET rows == SortRows(key, ApplySearch(ApplyFilters(d, f), term))
        keep == {k \in 1..Len(rows) : k = 1 \/ rows[k] # rows[k - 1]}
        Nth(n) == CHOOSE k \in keep : Cardinality({j \in keep : j < k}) = n - 1
    IN [n \in 1..Cardinality(keep) |-> rows[Nth(n)]]

\* The body of the useMemo of filteredData (lines 419-457).
FilteredData(d, term, f, key) == SortRows(key, ApplySearch(ApplyFilters(d, f), term))

filteredData == FilteredData(data, searchTerm, filters, sortKey)

-----------------------------------------------------------------------------
(* dynamicFilterOptions, lines 459-476 *)

\* The elements of s at the indices of idx, in order.
Pick(s, idx) ==
    LET Nth(n) == CHOOSE k \in idx : Cardinality({j \in idx : j < k}) = n - 1
    IN [n \in 1..Cardinality(idx) |-> s[Nth(n)]]

\* [...new Set(values)]: the distinct values, in order of first occurrence (line 465).
Unique(s) == Pick(s, {k \in 1..Len(s) : \A j \in 1..(k - 1) : s[j] # s[k]})

\* temp_data.map(row => row[col]).filter(Boolean) (line 465)
ColumnValues(rows, col) ==
    LET present == SelectSeq(rows, LAMBDA row : col \in DOMAIN row /\ row[col] # <<>>)
    IN [k \in 1..Len(present) |-> present[k][col]]

\* uniqueValues.sort((a, b) => a.localeCompare(b)) (line 466)
InsertString(s, x) ==
    LET notGreater == {k \in 1..Len(s) : localeCompare(s[k], x) <= 0}
        p == IF notGreater = {} THEN 0
             ELSE CHOOSE k \in notGreater : \A j \in notGreater : j <= k
    IN SubSeq(s, 1, p) \o <<x>> \o SubSeq(s, p + 1, Len(s))
RECURSIVE SortStringsPrefix(_, _)
SortStringsPrefix(s, n) ==
    IF n = 0 THEN <<>> ELSE InsertString(SortStringsPrefix(s, n - 1), s[n])
SortStrings(s) == SortStringsPrefix(s, Len(s))

\* Variant narrowing by every active selection, the column's own included.
TempDataAllFilters(d, f, pos) == ApplyFilters(d, f)

\* temp_data when the forEach reaches the column at 1-based position pos: data
\* filtered by the active selections of the columns before it (lines 461, 469-472).
RECURSIVE TempData(_, _, _)
TempData(d, f, pos) ==
    IF pos = 1 THEN d
    ELSE LET prev == TempData(d, f, pos - 1)
             col == FILTERABLE_COLUMNS[pos - 1]
         IN IF FilterActive(f, col)
            THEN SelectSeq(prev, LAMBDA row : RowEquals(row, col, f[col]))
            ELSE prev

DynamicFilterOptions(d, f) ==
    [col \in Range(FILTERABLE_COLUMNS) |->
        SortStrings(Unique(
            ColumnValues(TempData(d, f, IndexOf(FILTERABLE_COLUMNS, col) + 1), col)))]

dynamicFilterOptions == DynamicFilterOptions(data, filters)

-----------------------------------------------------------------------------
(* Pagination, lines 488-493 and PaginationControls, lines 129-218 *)

\* Math.ceil(n / d) for n >= 0, d > 0
Ceil(n, d) == IF n % d = 0 THEN n \div d ELSE (n \div d) + 1

\* Array.prototype.slice(start, end)
Slice(s, start, end) ==
    LET n == Len(s)
        from == IF start < 0 THEN Max(n + start, 0) ELSE Min(start, n)
        to == IF end < 0 THEN Max(n + end, 0) ELSE Min(end, n)
    IN IF from < to THEN SubSeq(s, from + 1, to) ELSE <<>>

TotalPagesFloor(rows) == Len(rows) \div ITEMS_PER_PAGE

\* line 488
TotalPages(rows) == Ceil(Len(rows), ITEMS_PER_PAGE)

totalPages == TotalPages(filteredData)

\* lines 490-493
PageOf(rows, page) ==
    LET startIndex == (page - 1) * ITEMS_PER_PAGE
    IN Slice(rows, startIndex, startIndex + ITEMS_PER_PAGE)

paginatedData == PageOf(filteredData, currentPage)

\* The numbers among getPageNumbers() (lines 134-170): the page buttons shown.
maxPagesToShow == 5
PageNumbers(cp, tp) ==
    LET halfPages == maxPagesToShow \div 2
        startPage == IF tp - cp <= halfPages THEN tp - maxPagesToShow + 1
                     ELSE Max(1, cp - halfPages)
        endPage == IF cp - 1 <= halfPages THEN maxPagesToShow
                   ELSE Min(tp, cp + halfPages)
    IN IF tp <= maxPagesToShow THEN 1..tp
       ELSE (IF startPage > 1 THEN {1} ELSE {})
            \cup (startPage..endPage)
            \cup (IF endPage < tp THEN {tp} ELSE {})

-----------------------------------------------------------------------------
(* The published sheet: the CSV texts the feed may return *)

RECURSIVE JoinFrom(_, _, _)
JoinFrom(parts, sep, k) ==
    IF k > Len(parts) THEN <<>>
    ELSE IF k = Len(parts) THEN parts[k]
    ELSE parts[k] \o sep \o JoinFrom(parts, sep, k + 1)
Join(parts, sep) == JoinFrom(parts, sep, 1)

HeaderLine == <<"W", COMMA, "T", COMMA, "M", COMMA, "S">>

\* A sheet with the header row only.
BodyHeaderOnly == HeaderLine \o <<LF>>

\* A small sheet: a quoted title with a comma, textbooks that differ by case only,
\* a CRLF line end, a blank row and a short row.
BodySmall ==
    Join(<< HeaderLine,
            <<"b", COMMA, "x", COMMA, "m", COMMA, "s">>,
            <<QUOTE, "A", COMMA, "b", QUOTE, COMMA, "x", COMMA, "m", COMMA, "t", CR>>,
            <<"a", COMMA, "X", COMMA, "n", COMMA, "s">>,
            <<COMMA, COMMA, SPACE, COMMA>>,
            <<"B", COMMA, "y">> >>, <<LF>>) \o <<LF>>

\* Row k of a long sheet.
RowLine(k) ==
    (CASE k % 4 = 0 -> <<"a">> [] k % 4 = 1 -> <<"A", "b">> [] k % 4 = 2 -> <<"b">>
       [] OTHER -> <<"B">>)
    \o <<COMMA>> \o (IF k % 3 = 0 THEN <<"y">> ELSE <<"x">>)
    \o <<COMMA>> \o (IF k % 2 = 0 THEN <<"m">> ELSE <<"n">>)
    \o <<COMMA>> \o (IF k % 5 < 3 THEN <<"s">> ELSE <<"t">>)

\* A sheet of n data rows.
BodyRows(n) == Join(<<HeaderLine>> \o [k \in 1..n |-> RowLine(k)], <<LF>>)

SheetBodies == {BodyHeaderOnly, BodySmall, BodyRows(FeedRows)}

\* A sheet in which a row occurs three times and another twice.
BodyDuplicates ==
    Join(<< HeaderLine,
            <<"b", COMMA, "x", COMMA, "m", COMMA, "s">>,
            <<"a", COMMA, "x", COMMA, "m", COMMA, "s">>,
            <<"a", "B", COMMA, "y", COMMA, "n", COMMA, "t">>,
            <<"b", COMMA, "x", COMMA, "m", COMMA, "s">>,
            <<"a", COMMA, "x", COMMA, "m", COMMA, "s">>,
            <<"a", COMMA, "x", COMMA, "m", COMMA, "s">> >>, <<LF>>)

DuplicateBodies == {BodyDuplicates, BodySmall}
RowsBodies == {BodyRows(n) : n \in 0..MaxRows}

\* Sheets with anomalies: a header row of two or three names, or quoted and padded
\* with a repeated name; then one data line of any shape (short, long, stray quotes), or
\* three data lines among which blank ones.
HeaderLines ==
    { <<"W", COMMA, "T">>,
      <<"T", COMMA, "M", COMMA, "W">>,
      <<QUOTE, "W", QUOTE, COMMA, SPACE, "T", SPACE, COMMA, "W">> }
DataLines ==
    SeqsUpTo({"a", COMMA, QUOTE, SPACE}, MaxDataLen)
    \cup { <<"a", COMMA, "b", COMMA, "c", COMMA, "d">>, ExampleLine1 }
\* The line : one field, a space between two literal double quotes.
QuotedSpaceLine == <<QUOTE, QUOTE, QUOTE, SPACE, QUOTE, QUOTE, QUOTE>>
BlockLines ==
    { <<"a">>, <<COMMA, "a">>, <<"b", COMMA, "a">>, <<QUOTE, "b">>,
      <<SPACE, COMMA, SPACE>>, <<>>, QuotedSpaceLine }
AnomalyBodies ==
    { Join(<<h, d>>, <<LF>>) : h \in HeaderLines, d \in DataLines }
    \cup { Join(<<h>> \o ds, <<LF>>) : h \in HeaderLines, ds \in [1..3 -> BlockLines] }

-----------------------------------------------------------------------------
(* fetchData and the fetch effect, lines 334-383 *)

NULL == "null"
ErrEmptySheet == "sheet is empty or holds the header row only"
ErrStatus == "failed to fetch the data (status: 500)"
ErrDefault == "unexpected error"
FailedToFetch == "Failed to fetch"

\* new Date() when a fetch settles: the number of fetches settled so far, plus one.
Now == issued - Cardinality(inflight) + 1

\* fetchData with the loading flag raised at every start.
FetchStartAlwaysLoading ==
    /\ isLoading' = TRUE
    /\ error' = NULL
    /\ issued' = issued + 1
    /\ inflight' = inflight \cup {issued + 1}
    /\ UNCHANGED <<data, searchTerm, filters, sortKey, lastUpdated, currentPage,
                   isInitialMount>>

\* fetchData up to its first await (lines 336-340).
FetchStart ==
    /\ isLoading' = (IF isInitialMount THEN TRUE ELSE isLoading)
    /\ error' = NULL
    /\ issued' = issued + 1
    /\ inflight' = inflight \cup {issued + 1}
    /\ UNCHANGED <<data, searchTerm, filters, sortKey, lastUpdated, currentPage,
                   isInitialMount>>

\* The effect at mount: fetchData(); setInterval(fetchData, 30000) (lines 379-380).
Mount ==
    /\ timer = "unmounted"
    /\ timer' = "running"
    /\ FetchStart
    /\ UNCHANGED scanVars

\* A tick that waits for the fetches in flight.
TickExclusive ==
    /\ timer = "running"
    /\ issued < MaxFetches
    /\ inflight = {}
    /\ FetchStart
    /\ UNCHANGED <<timer, scanVars>>

\* A tick that starts no fetch while an error is shown.
TickUnlessError ==
    /\ timer = "running"
    /\ issued < MaxFetches
    /\ error = NULL
    /\ FetchStart
    /\ UNCHANGED <<timer, scanVars>>

\* A tick of an interval that the cleanup did not clear.
TickNotCleared ==
    /\ timer # "unmounted"
    /\ issued < MaxFetches
    /\ FetchStart
    /\ UNCHANGED <<timer, scanVars>>

\* A tick of the interval timer (line 380).
Tick ==
    /\ timer = "running"
    /\ issued < MaxFetches
    /\ FetchStart
    /\ UNCHANGED <<timer, scanVars>>

\* The finally block (lines 371-376), with the fetch leaving the flight.
Finally(id) ==
    /\ isLoading' = (IF isInitialMount THEN FALSE ELSE isLoading)
    /\ isInitialMount' = FALSE
    /\ inflight' = inflight \ {id}
    /\ UNCHANGED <<issued, timer, searchTerm, filters, sortKey, currentPage, scanVars>>

\* err.message || '...' (line 370)
ErrorMessage(message) == IF message = "" THEN ErrDefault ELSE message

\* The catch block, clearing the data as well.
FetchRejectedClearsData(id) ==
    /\ timer = "running"
    /\ id \in inflight
    /\ error' = ErrorMessage(FailedToFetch)
    /\ data' = <<>>
    /\ UNCHANGED lastUpdated
    /\ Finally(id)

\* fetch() rejects: the catch block (lines 368-371).
FetchRejected(id) ==
    /\ timer = "running"
    /\ id \in inflight
    /\ error' = ErrorMessage(FailedToFetch)
    /\ UNCHANGED <<data, lastUpdated>>
    /\ Finally(id)

\* The response is not ok: throw, then the catch block (lines 341, 368-371).
FetchNotOk(id) ==
    /\ timer = "running"
    /\ id \in inflight
    /\ error' = ErrorMessage(ErrStatus)
    /\ UNCHANGED <<data, lastUpdated>>
    /\ Finally(id)

\* What lines 343-363 make of each body of the feed: the lines of the trimmed text
\* and, for a sheet of two lines or more, newRows. A body has one outcome, so it is
\* tabulated once.
ParsedBody ==
    [csvText \in SheetBodies \cup RowsBodies \cup AnomalyBodies \cup DuplicateBodies |->
        LET lines == BodyLines(csvText)
        IN [lines |-> lines,
            newRows |-> IF Len(lines) < 2 THEN <<>> ELSE ParseRows(lines)]]

\* The response is ok, with no message for a sheet of fewer than two lines.
FetchOkNoEmptyMessage(id, csvText) ==
    /\ timer = "running"
    /\ id \in inflight
    /\ LET parsed == ParsedBody[csvText] IN
        IF Len(parsed.lines) < 2
        THEN /\ data' = <<>>
             /\ UNCHANGED error
        ELSE /\ data' = parsed.newRows
             /\ UNCHANGED error
    /\ lastUpdated' = Now
    /\ Finally(id)

\* The response is ok and its text is csvText (lines 343-366).
FetchOk(id, csvText) ==
    /\ timer = "running"
    /\ id \in inflight
    /\ LET parsed == ParsedBody[csvText] IN
        IF Len(parsed.lines) < 2
        THEN /\ data' = <<>>
             /\ error' = (IF isInitialMount THEN ErrEmptySheet ELSE error)
        ELSE /\ data' = parsed.newRows
             /\ UNCHANGED error
    /\ lastUpdated' = Now
    /\ Finally(id)

\* The cleanup of the effect when the view is torn down: clearInterval(intervalId)
\* (line 382). The timer fires no more; the fetches in flight are left alone.
Teardown ==
    /\ timer = "running"
    /\ timer' = "cleared"
    /\ UNCHANGED <<appVars, issued, inflight, scanVars>>

\* A fetch that settles after the teardown and still clears the loading flag.
SettleDetachedPublishes(id) ==
    /\ timer = "cleared"
    /\ id \in inflight
    /\ inflight' = inflight \ {id}
    /\ isInitialMount' = FALSE
    /\ isLoading' = (IF isInitialMount THEN FALSE ELSE isLoading)
    /\ UNCHANGED <<data, searchTerm, filters, sortKey, error, lastUpdated,
                   currentPage, timer, issued, scanVars>>

\* A fetch settles, in any of the three ways, after the view was torn down: the
\* state setters of lines 348-373 act on an unmounted component and change nothing;
\* the ref is still written (line 374).
SettleDetached(id) ==
    /\ timer = "cleared"
    /\ id \in inflight
    /\ inflight' = inflight \ {id}
    /\ isInitialMount' = FALSE
    /\ UNCHANGED <<data, searchTerm, filters, sortKey, isLoading, error, lastUpdated,
                   currentPage, timer, issued, scanVars>>

\* What the view renders in its result area (lines 606-608).
RenderedView ==
    IF isLoading THEN "LoadingSpinner"
    ELSE IF error # NULL THEN "ErrorDisplay"
    ELSE "table"

-----------------------------------------------------------------------------
(* fetchData of the alternate variant of App, lines 887-926 *)

\* Variant: the split at every comma.
RegexCutsEveryComma(ln) == {k \in 1..Len(ln) : ln[k] = COMMA}

\* The commas the regex of line 905 matches: those followed by an even number of
\* double quotes up to the end of the line.
RegexCuts(ln) ==
    {k \in 1..Len(ln) :
        /\ ln[k] = COMMA
        /\ Cardinality({j \in (k + 1)..Len(ln) : ln[j] = QUOTE}) % 2 = 0}

\* line.split(/,(?=(?:(?:[^"]*"){2})*[^"]*$)/) (line 905)
RegexSplit(ln) == PiecesAt(ln, RegexCuts(ln))

\* The commas at which the loop of parseCsvLine pushes a value (lines 74-76).
RECURSIVE ScanCutsFrom(_, _)
ScanCutsFrom(ln, st) ==
    IF st.i < Len(ln)
    THEN LET next == ScanStep(ln, st)
         IN (IF Len(next.values) > Len(st.values) THEN {st.i + 1} ELSE {})
                \cup ScanCutsFrom(ln, next)
    ELSE {}

ScanCuts(ln) == ScanCutsFrom(ln, ScanInit)

\* lines.slice(1).map(...) (lines 903-912): no row is dropped.
ParseRowsAlt(lines) ==
    LET headers == ParseHeaders(lines[1])
    IN [k \in 1..(Len(lines) - 1) |-> BuildRow(headers, RegexSplit(lines[k + 1]))]

\* What lines 895-912 make of each body with anomalies.
ParsedBodyAlt ==
    [csvText \in AnomalyBodies |->
        LET lines == BodyLines(csvText)
        IN [lines |-> lines,
            newRows |-> IF Len(lines) < 2 THEN <<>> ELSE ParseRowsAlt(lines)]]

\* The response is ok and its text is csvText (lines 895-916, 921-926).
FetchOkAlt(id, csvText) ==
    /\ timer = "running"
    /\ id \in inflight
    /\ LET parsed == ParsedBodyAlt[csvText] IN
        IF Len(parsed.lines) < 2
        THEN /\ data' = <<>>
             /\ error' = (IF isInitialMount THEN ErrEmptySheet ELSE error)
        ELSE /\ data' = parsed.newRows
             /\ UNCHANGED error
    /\ lastUpdated' = Now
    /\ Finally(id)

-----------------------------------------------------------------------------
(* User operations of App, lines 394-417, 484-486, 511, 589, 680 *)

SearchTerms == {<<>>, <<"a">>, <<"a", "B">>}
sortKeys == {DISPLAY_COLUMNS[1], DISPLAY_COLUMNS[2]}

\* The effect of lines 484-486 runs after a render in which searchTerm, filters or
\* sortKey is a new value (Object.is): it sets the page to 1.
PageResetOnlySearchAndFilters(changedSearch, changedFilters, changedSort) ==
    IF changedSearch \/ changedFilters THEN 1 ELSE currentPage

PageAfterRender(changedSearch, changedFilters, changedSort) ==
    IF changedSearch \/ changedFilters \/ changedSort THEN 1 ELSE currentPage

\* onChange of the search input: setSearchTerm(e.target.value) (line 511).
SetSearchTerm(term) ==
    /\ timer = "running"
    /\ searchTerm' = term
    /\ currentPage' = PageAfterRender(term # searchTerm, FALSE, FALSE)
    /\ UNCHANGED <<data, filters, sortKey, isLoading, error, lastUpdated, isInitialMount,
                   envVars, scanVars>>

WithoutKeys(f, keys) == [c \in (DOMAIN f) \ keys |-> f[c]]
WithKey(f, key, value) == [c \in (DOMAIN f) \cup {key} |-> IF c = key THEN value ELSE f[c]]

\* The updater of handleFilterChange (lines 395-412).
NewFiltersNoCascade(prev, column, value) ==
    IF value # <<>> THEN WithKey(prev, column, value) ELSE WithoutKeys(prev, {column})

NewFilters(prev, column, value) ==
    LET newFilters == IF value # <<>> THEN WithKey(prev, column, value)
                      ELSE WithoutKeys(prev, {column})
        filterIndex == IndexOf(FILTERABLE_COLUMNS, column)
    IN IF filterIndex # -1
       THEN WithoutKeys(newFilters,
                {FILTERABLE_COLUMNS[k] : k \in (filterIndex + 2)..Len(FILTERABLE_COLUMNS)})
       ELSE newFilters

\* handleFilterChange(column, value) from the dropdown of the column: value is ''
\* (the placeholder) or one of the options offered (lines 394-413, 523-534).
\* setFilters always stores a new object, so the page effect runs.
HandleFilterChange(column, value) ==
    /\ timer = "running"
    /\ value \in {<<>>} \cup Range(dynamicFilterOptions[column])
    /\ filters' = NewFilters(filters, column, value)
    /\ currentPage' = PageAfterRender(FALSE, TRUE, FALSE)
    /\ UNCHANGED <<data, searchTerm, sortKey, isLoading, error, lastUpdated, isInitialMount,
                   envVars, scanVars>>

\* handleResetFilters: setFilters({}) (lines 415-417).
HandleResetFilters ==
    /\ timer = "running"
    /\ filters' = <<>>
    /\ currentPage' = PageAfterRender(FALSE, TRUE, FALSE)
    /\ UNCHANGED <<data, searchTerm, sortKey, isLoading, error, lastUpdated, isInitialMount,
                   envVars, scanVars>>

\* A click on a sort option: setSortKey(key) (line 589).
SetSortKey(key) ==
    /\ timer = "running"
    /\ sortKey' = key
    /\ currentPage' = PageAfterRender(FALSE, FALSE, key # sortKey)
    /\ UNCHANGED <<data, searchTerm, filters, isLoading, error, lastUpdated, isInitialMount,
                   envVars, scanVars>>

\* PaginationControls is rendered when totalPages > 1 (line 675); its buttons call
\* onPageChange = setCurrentPage (line 680).
OnPageChange(page) ==
    /\ timer = "running"
    /\ totalPages > 1
    /\ page <= MaxPage
    /\ currentPage' = page
    /\ UNCHANGED <<data, searchTerm, filters, sortKey, isLoading, error, lastUpdated,
                   isInitialMount, envVars, scanVars>>

\* The Previous button (lines 174-176).
PreviousPage == currentPage # 1 /\ OnPageChange(currentPage - 1)

\* The Next button (lines 206-208).
NextPage == currentPage # totalPages /\ OnPageChange(currentPage + 1)

\* A page-number button (lines 185-198).
PageButton(page) == page \in PageNumbers(currentPage, totalPages) /\ OnPageChange(page)

-----------------------------------------------------------------------------
(* Specifications *)

\* The state after the first render of App (lines 310-318); no parser run is followed.
Init ==
    /\ data = <<>>
    /\ searchTerm = <<>>
    /\ filters = <<>>
    /\ sortKey = DISPLAY_COLUMNS[1]
    /\ isLoading = TRUE
    /\ error = NULL
    /\ lastUpdated = 0
    /\ currentPage = 1
    /\ isInitialMount = TRUE
    /\ timer = "unmounted"
    /\ issued = 0
    /\ inflight = {}
    /\ line = <<>>
    /\ i = 0
    /\ values = <<>>
    /\ currentVal = <<>>
    /\ inQuotes = FALSE
    /\ returned = TRUE
    /\ fields = <<>>
    /\ quoted = <<>>

UserAction ==
    \/ \E term \in SearchTerms : SetSearchTerm(term)
    \/ \E column \in Range(FILTERABLE_COLUMNS) :
           \E value \in {<<>>} \cup Range(dynamicFilterOptions[column]) :
               HandleFilterChange(column, value)
    \/ HandleResetFilters
    \/ \E key \in sortKeys : SetSortKey(key)
    \/ PreviousPage
    \/ NextPage
    \/ \E page \in 1..MaxPage : PageButton(page)

\* The App with the sheet of SheetBodies behind the feed.
Next ==
    \/ Mount
    \/ Tick
    \/ \E id \in inflight : FetchRejected(id)
    \/ \E id \in inflight : FetchNotOk(id)
    \/ \E id \in inflight : \E csvText \in SheetBodies : FetchOk(id, csvText)
    \/ Teardown
    \/ \E id \in inflight : SettleDetached(id)
    \/ UserAction

Spec == Init /\ [][Next]_vars

\* The App with the scheduling of the browser: the effect runs once the view is
\* mounted (line 379) and the interval fires every 30 s until it is cleared
\* (lines 380-382). Nothing makes a fetch settle, the user act or the view be torn
\* down.
SpecPolling == Init /\ [][Next]_vars /\ WF_vars(Mount) /\ WF_vars(Tick)

\* The pagination of sheets of 0..MaxRows rows.
NextPaging ==
    \/ Mount
    \/ \E id \in inflight : \E csvText \in RowsBodies : FetchOk(id, csvText)
    \/ \E key \in sortKeys : SetSortKey(key)
    \/ PreviousPage
    \/ NextPage
    \/ \E page \in 1..MaxPage : PageButton(page)

SpecPaging == Init /\ [][NextPaging]_vars

\* The App paging through a sheet that a refresh replaces: the feed returns the
\* sheet of MaxRows rows, the sheet of FeedRows rows or the sheet of one page.
RefreshBodies == {BodyRows(MaxRows), BodyRows(FeedRows), BodyRows(ITEMS_PER_PAGE)}

NextRefreshPaging ==
    \/ Mount
    \/ Tick
    \/ \E id \in inflight : FetchRejected(id)
    \/ \E id \in inflight : \E csvText \in RefreshBodies : FetchOk(id, csvText)
    \/ Teardown
    \/ \E id \in inflight : SettleDetached(id)
    \/ \E key \in sortKeys : SetSortKey(key)
    \/ PreviousPage
    \/ NextPage
    \/ \E page \in 1..MaxPage : PageButton(page)

SpecRefreshPaging == Init /\ [][NextRefreshPaging]_vars

\* The App over a sheet with repeated rows, fetched once; the sheet fits one page.
NextDuplicates ==
    \/ Mount
    \/ \E id \in inflight : \E csvText \in DuplicateBodies : FetchOk(id, csvText)
    \/ \E term \in SearchTerms : SetSearchTerm(term)
    \/ \E column \in Range(FILTERABLE_COLUMNS) :
           \E value \in {<<>>} \cup Range(dynamicFilterOptions[column]) :
               HandleFilterChange(column, value)
    \/ HandleResetFilters
    \/ \E key \in sortKeys : SetSortKey(key)

SpecDuplicates == Init /\ [][NextDuplicates]_vars

\* The fetcher on the sheets with anomalies.
NextNormalize ==
    \/ Mount
    \/ \E id \in inflight : \E csvText \in AnomalyBodies : FetchOk(id, csvText)

SpecNormalize == Init /\ [][NextNormalize]_vars

\* The fetcher of the alternate variant on the sheets with anomalies.
NextAlt ==
    \/ Mount
    \/ \E id \in inflight : \E csvText \in AnomalyBodies : FetchOkAlt(id, csvText)

SpecAlt == Init /\ [][NextAlt]_vars

\* One run of parseCsvLine on each input line.
InitParse ==
    /\ data = <<>>
    /\ searchTerm = <<>>
    /\ filters = <<>>
    /\ sortKey = DISPLAY_COLUMNS[1]
    /\ isLoading = TRUE
    /\ error = NULL
    /\ lastUpdated = 0
    /\ currentPage = 1
    /\ isInitialMount = TRUE
    /\ timer = "unmounted"
    /\ issued = 0
    /\ inflight = {}
    /\ line \in InputLines
    /\ i = ScanInit.i
    /\ values = ScanInit.values
    /\ currentVal = ScanInit.currentVal
    /\ inQuotes = ScanInit.inQuotes
    /\ returned = FALSE
    /\ fields = <<>>
    /\ quoted = <<>>

NextParse == Scan \/ ScanReturn

SpecParse == InitParse /\ [][NextParse]_vars

-----------------------------------------------------------------------------
(* The parser on the line that encodes a sequence of fields: SpecRoundTrip *)

FieldAlphabet == {"a", COMMA, QUOTE}

\* The field with each double quote doubled.
DoubleQuotes(f) ==
    LET ends == [k \in 0..Len(f) |->
                    k + Cardinality({j \in 1..k : f[j] = QUOTE})]
    IN [p \in 1..ends[Len(f)] |->
           LET k == CHOOSE m \in 1..Len(f) : ends[m - 1] < p /\ p <= ends[m] IN f[k]]

\* A field as a writer of CSV puts it on the line.
EncodeField(f, q) ==
    IF q THEN <<QUOTE>> \o DoubleQuotes(f) \o <<QUOTE>> ELSE DoubleQuotes(f)

EncodeLine(fs, qs) == Join([k \in 1..Len(fs) |-> EncodeField(fs[k], qs[k])], <<COMMA>>)

\* A field with a comma or a double quote is written quoted.
NeedsQuotes(f) == \E k \in 1..Len(f) : f[k] \in {COMMA, QUOTE}

FieldSeqs == SeqsUpTo(SeqsUpTo(FieldAlphabet, MaxFieldLen), MaxFields) \ {<<>>}

\* One run of parseCsvLine on the line of each sequence of fields.
InitRoundTrip ==
    /\ data = <<>>
    /\ searchTerm = <<>>
    /\ filters = <<>>
    /\ sortKey = DISPLAY_COLUMNS[1]
    /\ isLoading = TRUE
    /\ error = NULL
    /\ lastUpdated = 0
    /\ currentPage = 1
    /\ isInitialMount = TRUE
    /\ timer = "unmounted"
    /\ issued = 0
    /\ inflight = {}
    /\ fields \in FieldSeqs
    /\ quoted \in {qs \in [1..Len(fields) -> BOOLEAN] :
                       \A k \in 1..Len(fields) : NeedsQuotes(fields[k]) => qs[k]}
    /\ line = EncodeLine(fields, quoted)
    /\ i = ScanInit.i
    /\ values = ScanInit.values
    /\ currentVal = ScanInit.currentVal
    /\ inQuotes = ScanInit.inQuotes
    /\ returned = FALSE

SpecRoundTrip == InitRoundTrip /\ [][NextParse]_vars

-----------------------------------------------------------------------------
(* Claims *)

FilterableAt(pos) == FILTERABLE_COLUMNS[pos]
Selected(f, col) == col \in DOMAIN f /\ f[col] # <<>>

\* C1: every record of the result sequence has, on every filterable column whose
\* selection is not empty, exactly the selected value (whole string, case-sensitive).
C1_FilterExactMatch ==
    \A k \in 1..Len(filteredData) :
        \A col \in Range(FILTERABLE_COLUMNS) :
            Selected(filters, col) =>
                /\ col \in DOMAIN filteredData[k]
                /\ filteredData[k][col] = filters[col]

\* A textbook is selected, the result is not empty, and the dataset holds a record
\* whose textbook differs from the selection by case only.
C1_Witness ==
    /\ Selected(filters, ColT)
    /\ filters[ColT] = <<"x">>
    /\ Len(filteredData) > 0
    /\ \E k \in 1..Len(data) : data[k][ColT] = <<"X">>

\* t occurs in s when the case of the letters is ignored.
ContainsIgnoringCase(s, t) ==
    \E off \in 0..(Len(s) - Len(t)) :
        \A k \in 1..Len(t) : LowerChar(s[off + k]) = LowerChar(t[k])

\* C2: with a search term that is not empty every record of the result sequence
\* contains the term, case ignored, in the column W; with the empty term the result
\* is the result of the filter step alone.
C2_SearchSubstring ==
    /\ searchTerm # <<>> =>
           \A k \in 1..Len(filteredData) :
               /\ ColW \in DOMAIN filteredData[k]
               /\ ContainsIgnoringCase(filteredData[k][ColW], searchTerm)
    /\ searchTerm = <<>> =>
           filteredData = SortRows(sortKey, ApplyFilters(data, filters))

\* The term aB has kept the record titled Ab and has removed other records.
C2_Witness ==
    /\ searchTerm = <<"a", "B">>
    /\ \E k \in 1..Len(filteredData) : filteredData[k][ColW] = <<"A", "b">>
    /\ Len(filteredData) < Len(ApplyFilters(data, filters))

\* The comparator the claim describes: W for the default key; T, then M, then S for
\* the key T, the first comparison that is not 0 deciding; a missing value is ''.
ChainCompare(a, b, cols, pos) ==
    LET differing == {k \in pos..Len(cols) :
                         localeCompare(OrEmpty(a, cols[k]), OrEmpty(b, cols[k])) # 0}
    IN IF differing = {} THEN 0
       ELSE LET first == CHOOSE k \in differing : \A j \in differing : k <= j
            IN localeCompare(OrEmpty(a, cols[first]), OrEmpty(b, cols[first]))

ClaimedCompare(key, a, b) ==
    IF key = ColT THEN ChainCompare(a, b, <<ColT, ColM, ColS>>, 1)
    ELSE localeCompare(OrEmpty(a, ColW), OrEmpty(b, ColW))

\* C3: the result sequence is sorted for the active sort key: the claimed comparator
\* is <= 0 on every adjacent pair.
C3_Sorted ==
    \A k \in 1..(Len(filteredData) - 1) :
        ClaimedCompare(sortKey, filteredData[k], filteredData[k + 1]) <= 0

\* Sorted by textbook, with an adjacent pair that the third level decides, and the
\* sort has changed the order of the records.
C3_Witness ==
    /\ sortKey = ColT
    /\ \E k \in 1..(Len(filteredData) - 1) :
           /\ filteredData[k][ColT] = filteredData[k + 1][ColT]
           /\ filteredData[k][ColM] = filteredData[k + 1][ColM]
           /\ filteredData[k][ColS] # filteredData[k + 1][ColS]
    /\ filteredData # ApplySearch(ApplyFilters(data, filters), searchTerm)

\* C4: totalPages is the ceiling of n / 20; page p of 1..totalPages is the slice of
\* the records (p-1)*20 .. min(p*20, n)-1 (0-based); 45 records give 3 pages, the
\* third of 5 records; no record gives 0 pages and an empty page 1.
C4_Pagination ==
    LET n == Len(filteredData) IN
    /\ totalPages * 20 >= n
    /\ (totalPages - 1) * 20 < n
    /\ \A p \in 1..totalPages :
           LET lo == (p - 1) * 20
               hi == Min(p * 20, n)
           IN /\ PageOf(filteredData, p) = [k \in 1..(hi - lo) |-> filteredData[lo + k]]
              /\ (p < totalPages => Len(PageOf(filteredData, p)) = 20)
              /\ (p = totalPages => Len(PageOf(filteredData, p)) = n - 20 * (totalPages - 1))
    /\ currentPage \in 1..totalPages => paginatedData = PageOf(filteredData, currentPage)
    /\ n = 45 => totalPages = 3 /\ Len(PageOf(filteredData, 3)) = 5
    /\ n = 0 => totalPages = 0 /\ PageOf(filteredData, 1) = <<>>

\* 45 records, and page 3 is shown with its 5 records.
C4_Witness ==
    /\ Len(filteredData) = 45
    /\ currentPage = 3
    /\ Len(paginatedData) = 5

\* C5: a step that changes the search term or the sort key, and every step of
\* handleFilterChange or handleResetFilters, leaves the current page at 1.
C5_PageResets ==
    [][ ( \/ searchTerm' # searchTerm
          \/ sortKey' # sortKey
          \/ filters' # filters
          \/ HandleResetFilters
          \/ \E column \in Range(FILTERABLE_COLUMNS) :
                 \E value \in {<<>>} \cup Range(dynamicFilterOptions[column]) :
                     HandleFilterChange(column, value) )
        => currentPage' = 1 ]_vars

\* The dropdown of the column offers the value (the guard of handleFilterChange).
CanSelect(column, value) ==
    timer = "running" /\ value \in Range(dynamicFilterOptions[column])

\* A later page is shown, under a textbook selection, and each of the four operations
\* can act on it and change its input.
C5_Witness ==
    /\ currentPage > 1
    /\ Selected(filters, ColT)
    /\ searchTerm # <<"a">> /\ ENABLED SetSearchTerm(<<"a">>)
    /\ sortKey # ColT /\ ENABLED SetSortKey(ColT)
    /\ ENABLED HandleResetFilters
    /\ CanSelect(ColT, <<"y">>) /\ filters[ColT] # <<"y">>

\* C6: whenever the result sequence is not empty, the current page lies in
\* 1..totalPages and the page window shown is not empty.
C6_NoStalePage ==
    Len(filteredData) > 0 => (currentPage \in 1..totalPages /\ paginatedData # <<>>)

\* The selection that handleFilterChange(column, value) must leave, given the one before.
C7_Post(before, after, column, value) ==
    LET pos == CHOOSE k \in 1..Len(FILTERABLE_COLUMNS) : FILTERABLE_COLUMNS[k] = column IN
    /\ IF value # <<>>
       THEN column \in DOMAIN after /\ after[column] = value
       ELSE column \notin DOMAIN after
    /\ \A k \in (pos + 1)..Len(FILTERABLE_COLUMNS) : FilterableAt(k) \notin DOMAIN after
    /\ \A k \in 1..(pos - 1) :
           /\ FilterableAt(k) \in DOMAIN after <=> FilterableAt(k) \in DOMAIN before
           /\ FilterableAt(k) \in DOMAIN before => after[FilterableAt(k)] = before[FilterableAt(k)]

\* C7: handleFilterChange(column, value) for the column at position i sets (for the
\* empty value: removes) the selection at i, removes the selections at i+1..n and
\* leaves the selections before i as they were.
C7_FilterCascade ==
    [][ \A column \in Range(FILTERABLE_COLUMNS) :
            \A value \in {<<>>} \cup Range(dynamicFilterOptions[column]) :
                HandleFilterChange(column, value) => C7_Post(filters, filters', column, value)
      ]_vars

\* All three columns are selected and the middle one can be changed to another value.
C7_Witness ==
    /\ \A col \in Range(FILTERABLE_COLUMNS) : Selected(filters, col)
    /\ filters[ColM] # <<"n">>
    /\ CanSelect(ColM, <<"n">>)

\* The distinct values, not empty, of the column at pos among the records of d that
\* match the selections of f at the positions before pos.
C8_Expected(d, f, pos) ==
    {d[k][FilterableAt(pos)] :
        k \in {m \in 1..Len(d) :
                  /\ FilterableAt(pos) \in DOMAIN d[m]
                  /\ d[m][FilterableAt(pos)] # <<>>
                  /\ \A j \in 1..(pos - 1) :
                         Selected(f, FilterableAt(j)) =>
                             /\ FilterableAt(j) \in DOMAIN d[m]
                             /\ d[m][FilterableAt(j)] = f[FilterableAt(j)]}}

\* The selections that differ from f at the column col only: removed, or any value of
\* that column in the dataset.
C8_Variants(d, f, col) ==
    {WithoutKeys(f, {col})} \cup {WithKey(f, col, d[k][col]) : k \in 1..Len(d)}

\* C8: the options offered for the column at position i are exactly the distinct
\* values that are not empty of that column among the records matching the selections
\* before i, without duplicates, whatever the selection at position i or later.
C8_DynamicOptions ==
    \A pos \in 1..Len(FILTERABLE_COLUMNS) :
        LET options == dynamicFilterOptions[FilterableAt(pos)] IN
        /\ Range(options) = C8_Expected(data, filters, pos)
        /\ Len(options) = Cardinality(C8_Expected(data, filters, pos))
        /\ \A later \in pos..Len(FILTERABLE_COLUMNS) :
               \A f \in C8_Variants(data, filters, FilterableAt(later)) :
                   DynamicFilterOptions(data, f)[FilterableAt(pos)] = options

\* The textbook X and a main unit are selected: the sub-units offered are those of the
\* matching records only, fewer than the sub-units of the dataset.
C8_Witness ==
    /\ Selected(filters, ColT) /\ filters[ColT] = <<"X">>
    /\ Selected(filters, ColM)
    /\ dynamicFilterOptions[ColS] = << <<"s">> >>
    /\ \E k \in 1..Len(data) : data[k][ColS] = <<"t">>
    /\ Len(dynamicFilterOptions[ColT]) = 3

\* The commas of ln, among its first n characters, that are outside quotes: an even
\* number of double quotes stands before them.
OutsideCommas(ln, n) ==
    {k \in 1..n :
        /\ ln[k] = COMMA
        /\ Cardinality({j \in 1..(k - 1) : ln[j] = QUOTE}) % 2 = 0}

\* C9: parseCsvLine splits at the commas outside quotes and at no other place, and
\* always emits a last field: 1 + (commas outside quotes) fields, one empty field for
\* the empty line, and <<a, "b,c", d>> for the line a,"b,c",d.
C9_FieldCount ==
    /\ ~returned => Len(values) = Cardinality(OutsideCommas(line, i))
    /\ returned =>
           /\ Len(values) = 1 + Cardinality(OutsideCommas(line, Len(line)))
           /\ Len(values) >= 1
           /\ values = parseCsvLine(line)
    /\ returned /\ line = <<>> => values = << <<>> >>
    /\ returned /\ line = ExampleLine1 =>
           values = << <<"a">>, <<"b", COMMA, "c">>, <<"d">> >>

\* The run on a,"b,c",d has returned its three fields.
C9_Witness ==
    /\ returned
    /\ line = ExampleLine1
    /\ values = << <<"a">>, <<"b", COMMA, "c">>, <<"d">> >>

\* C10: a double quote toggles inQuotes and adds nothing to the field, except inside
\* quotes and right before another double quote: then one quote is added to the
\* field, both characters are consumed and inQuotes stays true. The line a,"b""c",d
\* gives <<a, b"c, d>>.
C10_QuoteHandling ==
    /\ [](returned /\ line = ExampleLine2 =>
              values = << <<"a">>, <<"b", QUOTE, "c">>, <<"d">> >>)
    /\ [][ (~returned /\ i < Len(line) /\ line[i + 1] = QUOTE) =>
               IF inQuotes /\ i + 2 <= Len(line) /\ line[i + 2] = QUOTE
               THEN /\ currentVal' = Append(currentVal, QUOTE)
                    /\ i' = i + 2
                    /\ inQuotes'
                    /\ values' = values
               ELSE /\ currentVal' = currentVal
                    /\ i' = i + 1
                    /\ inQuotes' = ~inQuotes
                    /\ values' = values ]_vars

\* The run on a,"b""c",d has returned, the escaped quote decoded once.
C10_Witness ==
    /\ returned
    /\ line = ExampleLine2
    /\ values = << <<"a">>, <<"b", QUOTE, "c">>, <<"d">> >>

\* C11: when parseCsvLine has returned on the line that encodes a sequence of fields
\* (at least one field; quotes doubled; a field wrapped in double quotes where it is
\* quoted, and quoted whenever it holds a comma or a double quote; fields joined by
\* commas), the values returned are exactly the fields.
C11_RoundTrip ==
    /\ line = EncodeLine(fields, quoted)
    /\ returned => (values = fields /\ parseCsvLine(line) = fields)

\* The run has returned on two fields: a quoted one with a comma and a double quote,
\* and a plain one that is not quoted.
C11_Witness ==
    /\ returned
    /\ Len(fields) = 2
    /\ quoted[1] /\ COMMA \in Range(fields[1]) /\ QUOTE \in Range(fields[1])
    /\ ~quoted[2] /\ fields[2] = <<"a">>
    /\ values = fields

\* The number of double quotes among the first n characters of ln.
QuotesBefore(ln, n) == Cardinality({k \in 1..n : ln[k] = QUOTE})

\* Every double quote of s is one of a pair of adjacent double quotes.
RECURSIVE PairsOnly(_)
PairsOnly(s) ==
    IF s = <<>> THEN TRUE
    ELSE IF s[1] # QUOTE THEN PairsOnly(Tail(s))
    ELSE Len(s) >= 2 /\ s[2] = QUOTE /\ PairsOnly(SubSeq(s, 3, Len(s)))

\* s with each pair of adjacent double quotes read as one double quote.
RECURSIVE PairsAsOne(_)
PairsAsOne(s) ==
    IF s = <<>> THEN <<>>
    ELSE IF s[1] = QUOTE /\ Len(s) >= 2 /\ s[2] = QUOTE
         THEN <<QUOTE>> \o PairsAsOne(SubSeq(s, 3, Len(s)))
    ELSE <<s[1]>> \o PairsAsOne(Tail(s))

\* The quote of ln that opens and is never closed: the first double quote that has
\* an even number of double quotes before it and only pairs after it. 0 if none.
OpeningQuote(ln) ==
    LET open == {p \in 1..Len(ln) :
                    /\ ln[p] = QUOTE
                    /\ QuotesBefore(ln, p - 1) % 2 = 0
                    /\ PairsOnly(SubSeq(ln, p + 1, Len(ln)))}
    IN IF open = {} THEN 0 ELSE CHOOSE p \in open : \A r \in open : p <= r

\* C12: the scanner can always take its next step until it returns, with its index
\* inside the line; when it has returned on a line whose last quote is not closed,
\* the fields before the opening quote are those of the text before it, and the last
\* field is the field that was current at the opening quote followed by all the text
\* after that quote, commas included (a doubled quote read as one quote).
C12_UnterminatedQuote ==
    /\ i <= Len(line)
    /\ ~returned => ENABLED NextParse
    /\ returned => values = parseCsvLine(line) /\ Len(values) >= 1
    /\ (returned /\ QuotesBefore(line, Len(line)) % 2 = 1) =>
           LET p == OpeningQuote(line)
               before == parseCsvLine(SubSeq(line, 1, p - 1))
               after == SubSeq(line, p + 1, Len(line))
           IN /\ p > 0
              /\ inQuotes
              /\ Len(values) = Len(before)
              /\ SubSeq(values, 1, Len(values) - 1) = SubSeq(before, 1, Len(before) - 1)
              /\ values[Len(values)] = before[Len(before)] \o PairsAsOne(after)

\* The run has returned on a line with text and a comma before the opening quote and
\* a comma after it.
C12_Witness ==
    /\ returned
    /\ QuotesBefore(line, Len(line)) % 2 = 1
    /\ OpeningQuote(line) > 2
    /\ \E k \in 1..(OpeningQuote(line) - 1) : line[k] = COMMA
    /\ \E k \in (OpeningQuote(line) + 1)..Len(line) : line[k] = COMMA
    /\ Len(values) = 2

\* The fetch with the body csvText settles in this step.
Publishes(csvText) == \E id \in inflight : FetchOk(id, csvText)

\* The names of the header row of the body, by position.
HeaderNames(csvText) == ParseHeaders(ParsedBody[csvText].lines[1])

\* The position whose field a record takes for the name: the last one of that name.
LastPosition(headers, name) ==
    CHOOSE k \in 1..Len(headers) :
        headers[k] = name /\ \A j \in (k + 1)..Len(headers) : headers[j] # name

\* C13: a fetch of a body of two lines or more runs its try block to the end (no
\* error is set, the timestamp is set) and every record it publishes has exactly the
\* names of the header row as keys; when the body has one data line, the record
\* holds the empty string at each header position past the fields of the line and
\* the normalized field at the others, whatever fields follow the last position.
C13_RecordKeys ==
    [][ \A csvText \in AnomalyBodies :
          (Publishes(csvText) /\ Len(ParsedBody[csvText].lines) >= 2) =>
             LET headers == HeaderNames(csvText)
                 vals == parseCsvLine(ParsedBody[csvText].lines[2])
             IN /\ error' = error /\ lastUpdated' # lastUpdated
                /\ \A k \in 1..Len(data') : DOMAIN data'[k] = Range(headers)
                /\ Len(ParsedBody[csvText].lines) = 2 =>
                      /\ Len(data') <= 1
                      /\ \A k \in 1..Len(data') : \A name \in Range(headers) :
                             LET p == LastPosition(headers, name)
                             IN data'[k][name] =
                                  IF p > Len(vals) THEN <<>> ELSE NormalizeValue(vals[p])
      ]_vars

\* What the body with the header row h and the data line d publishes.
PublishedOf(h, d) == ParsedBody[Join(<<h, d>>, <<LF>>)].newRows

\* The dataset shown is the one of a line shorter than the header row, with the
\* empty string at the missing position, or the one of a line of four fields under a
\* header row of two names.
C13_Witness ==
    /\ ~isInitialMount
    /\ \/ /\ data = PublishedOf(<<"W", COMMA, "T">>, <<"a">>)
          /\ data = << [n \in {<<"W">>, <<"T">>} |-> IF n = <<"W">> THEN <<"a">> ELSE <<>>] >>
       \/ /\ data = PublishedOf(<<"W", COMMA, "T">>, <<"a", COMMA, "b", COMMA, "c", COMMA, "d">>)
          /\ data = << [n \in {<<"W">>, <<"T">>} |-> IF n = <<"W">> THEN <<"a">> ELSE <<"b">>] >>

\* Every value of the record is empty or made of whitespace only.
BlankRecord(row) ==
    \A name \in DOMAIN row : \A k \in 1..Len(row[name]) : row[name][k] \in Whitespace

\* The records of the data lines of the body, before any is dropped.
BuiltRows(csvText) ==
    LET lines == ParsedBody[csvText].lines
    IN [k \in 1..(Len(lines) - 1) |->
           BuildRow(HeaderNames(csvText), parseCsvLine(lines[k + 1]))]

\* The n-th smallest element of the set S of numbers.
NthOf(S, n) == CHOOSE k \in S : Cardinality({j \in S : j < k}) = n - 1

\* C14: no dataset holds a record whose values are all empty or whitespace only.
\* Stated of every fetcher of the repository; the alternate variant breaks it.
C14_NoBlankPublished == \A k \in 1..Len(data) : ~BlankRecord(data[k])

\* C14 on the current App: no dataset holds a blank record, and a fetch of a body of
\* two lines or more publishes the records of its data lines that have a value with a
\* character other than whitespace, all of them and in the order of their lines.
C14_NoBlankRecords ==
    /\ [](\A k \in 1..Len(data) : ~BlankRecord(data[k]))
    /\ [][ \A csvText \in AnomalyBodies :
             (Publishes(csvText) /\ Len(ParsedBody[csvText].lines) >= 2) =>
                LET built == BuiltRows(csvText)
                    kept == {k \in 1..Len(built) : ~BlankRecord(built[k])}
                IN /\ Len(data') = Cardinality(kept)
                   /\ \A n \in 1..Len(data') : data'[n] = built[NthOf(kept, n)]
         ]_vars

\* What the body with the header row h and the data lines ds publishes.
PublishedOfBlock(h, ds) == ParsedBody[Join(<<h>> \o ds, <<LF>>)].newRows

\* The dataset shown is the one of three data lines of which the middle one gives a
\* record of one space and one empty string: two records, in the order of the lines.
C14_Witness ==
    /\ ~isInitialMount
    /\ data = PublishedOfBlock(<<"W", COMMA, "T">>,
                               << <<"b", COMMA, "a">>, QuotedSpaceLine, <<COMMA, "a">> >>)
    /\ BuildRow(<<<<"W">>, <<"T">>>>, parseCsvLine(QuotedSpaceLine))[<<"W">>] = <<SPACE>>
    /\ Len(data) = 2
    /\ data[1][<<"W">>] = <<"b">> /\ data[2][<<"W">>] = <<>>

\* C15: isLoading is true from the mount of the view until the first fetch has a
\* result, whatever the result is, and once it is false no later fetch makes it
\* true again.
NoResultYet == issued = Cardinality(inflight)

C15_LoadingOnce ==
    /\ [](timer # "cleared" => (isLoading <=> NoResultYet))
    /\ [][~isLoading => ~isLoading']_vars

\* A second fetch is in flight after the first one had its result.
C15_Witness ==
    /\ timer = "running"
    /\ ~isLoading
    /\ issued = 2
    /\ Cardinality(inflight) = 1

\* C16: when the first result of the first load is a failure, either a response that
\* is not ok (status 500) or an ok response whose body has fewer than two lines, the
\* state that results has isLoading false, an error message (the message of the empty
\* sheet in the second case) and an empty data; the fetch ends, nothing escapes it.
ShortBodies == {csvText \in SheetBodies : Len(ParsedBody[csvText].lines) < 2}

C16_FirstLoadFails ==
    [][\A id \in inflight :
          /\ (NoResultYet /\ FetchNotOk(id)) =>
                /\ ~isLoading'
                /\ error' = ErrStatus
                /\ error' # NULL
                /\ data' = <<>>
                /\ inflight' = inflight \ {id}
          /\ \A csvText \in ShortBodies :
                (NoResultYet /\ FetchOk(id, csvText)) =>
                    /\ ~isLoading'
                    /\ error' = ErrEmptySheet
                    /\ error' # NULL
                    /\ data' = <<>>
                    /\ inflight' = inflight \ {id}]_vars

\* The first fetch has returned the header row alone.
C16_Witness ==
    /\ timer = "running"
    /\ issued = 1
    /\ inflight = {}
    /\ ~isLoading
    /\ error = ErrEmptySheet
    /\ data = <<>>

\* C17: a fetch that throws, because fetch() rejects or because the response is not
\* ok, sets the error message and leaves data and lastUpdated as they were; a
\* data that was not empty is never replaced by an empty one.
Throws(id) == FetchRejected(id) \/ FetchNotOk(id)

C17_ThrowKeepsData ==
    [][\A id \in inflight :
          Throws(id) =>
              /\ error' \in {FailedToFetch, ErrStatus}
              /\ error' # NULL
              /\ data' = data
              /\ lastUpdated' = lastUpdated
              /\ (data # <<>> => data' # <<>>)]_vars

\* A refresh was rejected after rows had been published.
C17_Witness ==
    /\ error = FailedToFetch
    /\ data # <<>>
    /\ lastUpdated = 1
    /\ issued = 2
    /\ inflight = {}

\* C18: after a transport error on a background refresh the data published before
\* stays visible with the error banner: in every state where error is not null,
\* isLoading is false and data is not empty, the view renders the table of rows.
C18_DataVisibleUnderError ==
    (error # NULL /\ ~isLoading /\ data # <<>>) => RenderedView = "table"

\* C19: an ok response with fewer than two lines that completes after the first
\* result is treated as a transport error: an error message is set and the data
\* published before is retained.
C19_ShortRefreshIsError ==
    [][\A csvText \in ShortBodies :
          (~NoResultYet /\ Publishes(csvText)) =>
              /\ error' # NULL
              /\ data' = data]_vars

\* C20: after the teardown of the view (the cleanup of the effect, which calls
\* clearInterval) no fetch is started any more, however ticks, completions and the
\* teardown interleave: the count of fetches issued stays, the flight only shrinks
\* and the timer stays cleared.
C20_NoFetchAfterTeardown ==
    [][timer = "cleared" =>
          /\ issued' = issued
          /\ inflight' \subseteq inflight
          /\ timer' = "cleared"]_vars

\* The view was torn down with its first fetch in flight, which has settled since;
\* the interval had ticks left.
C20_Witness ==
    /\ timer = "cleared"
    /\ issued = 1
    /\ issued < MaxFetches
    /\ inflight = {}
    /\ ~isInitialMount

\* C21: polling goes on after errors with no backoff: while the view is not torn
\* down, whatever the outcomes of the fetches so far, the next tick of the timer
\* starts a new fetch (up to MaxFetches), and a fetch that failed is followed by a
\* new attempt, which starts with the error reset.
C21_PollingContinues ==
    \A n \in 0..(MaxFetches - 1) :
        /\ (issued = n) ~> (issued > n \/ timer = "cleared")
        /\ (issued = n /\ error # NULL)
              ~> ((issued = n + 1 /\ error = NULL) \/ timer = "cleared")

\* The first fetch threw and the next tick has started the second one.
C21_Witness ==
    /\ timer = "running"
    /\ issued = 2
    /\ inflight = {2}
    /\ ~isInitialMount
    /\ lastUpdated = 0
    /\ error = NULL

\* C22: every page asked for through the pagination controls lies in
\* 1..totalPages: in every state where the controls are rendered, each enabled
\* control (Previous, Next, a page-number button) passes such a page to
\* onPageChange.
\* totalPages > 1 && <PaginationControls ... /> (line 675)
ControlsRendered == totalPages > 1

\* The pages the enabled controls pass to onPageChange (lines 174-176, 185-187,
\* 206-208).
RequestedPages ==
    (IF currentPage # 1 THEN {currentPage - 1} ELSE {})
        \cup (IF currentPage # totalPages THEN {currentPage + 1} ELSE {})
        \cup PageNumbers(currentPage, totalPages)

C22_RequestedPageClamped ==
    ControlsRendered => RequestedPages \subseteq 1..totalPages

\* C23: no mutual exclusion between fetches: a tick starts a fetch while earlier
\* ones are in flight, and the response of a fetch issued earlier is applied after
\* that of one issued later, so that the data held is that of the older fetch.
LaterSettled(id) == \E later \in (id + 1)..issued : later \notin inflight

C23_NoMutualExclusion ==
    /\ []((timer = "running" /\ issued < MaxFetches) => ENABLED Tick)
    /\ [][\A id \in inflight : \A csvText \in SheetBodies :
              (LaterSettled(id) /\ FetchOk(id, csvText)) =>
                  /\ data' = ParsedBody[csvText].newRows
                  /\ lastUpdated' = Now]_vars

\* The second fetch has published its rows while the first is still in flight.
C23_Witness ==
    /\ timer = "running"
    /\ issued = 2
    /\ inflight = {1}
    /\ lastUpdated = 1
    /\ data = ParsedBody[BodyRows(FeedRows)].newRows

\* C24: a fetch in flight at the teardown is not aborted and its result is never
\* published: the teardown leaves it in flight, it still settles, and after the
\* teardown no step changes data, error, lastUpdated or isLoading.
C24_DetachedNeverPublished ==
    /\ [](timer = "cleared" => \A id \in inflight : ENABLED SettleDetached(id))
    /\ [][/\ Teardown => inflight' = inflight
          /\ timer = "cleared" =>
                /\ data' = data
                /\ error' = error
                /\ lastUpdated' = lastUpdated
                /\ isLoading' = isLoading]_vars

\* The second fetch was in flight at the teardown and has settled since: neither an
\* error nor a new timestamp shows it.
C24_Witness ==
    /\ timer = "cleared"
    /\ issued = 2
    /\ inflight = {}
    /\ lastUpdated = 1
    /\ error = NULL
    /\ data # <<>>

\* C25: whenever no fetch is in flight and the fetch that completed last succeeded
\* with at least one data row, error is null; in particular the message of the
\* empty sheet is never set while data is not empty.
C25_NoErrorAfterSuccess ==
    /\ [](~(error = ErrEmptySheet /\ data # <<>>))
    /\ [][\A csvText \in SheetBodies :
              (/\ Publishes(csvText)
               /\ Len(ParsedBody[csvText].newRows) >= 1
               /\ inflight' = {}) => error' = NULL]_vars

\* C26: with every filter value picked from the options offered at that moment,
\* and refreshes of the data in between, every active filter value is among the
\* options now offered for its column.
C26_FiltersAmongOptions ==
    \A column \in DOMAIN filters :
        filters[column] \in Range(dynamicFilterOptions[column])

\* C27: for a data line with balanced quoting, each value of the record is the
\* decoded content of its field, trimmed: the delimiting quotes are removed and
\* each escaped pair is decoded once; a decoded value that begins or ends with a
\* double quote, or holds two adjacent double quotes, passes the step that follows
\* parseCsvLine (line 357) unchanged.
C27_DecodedOnce ==
    returned =>
        \A k \in 1..Len(fields) :
            k <= Len(values) /\ NormalizeValue(values[k]) = Trim(fields[k])

\* C28: the result sequence is a permutation of exactly the records of the dataset
\* that match every active filter and the search term: each matching record occurs
\* in it as many times as in the dataset, no other record occurs, and the
\* derivation leaves the dataset as it is (data changes when a fetch completes only).
Matches(row) ==
    /\ \A col \in Range(FILTERABLE_COLUMNS) :
           Selected(filters, col) => (col \in DOMAIN row /\ row[col] = filters[col])
    /\ searchTerm # <<>> =>
           (ColW \in DOMAIN row /\ ContainsIgnoringCase(row[ColW], searchTerm))

Count(rows, rec) == Cardinality({k \in 1..Len(rows) : rows[k] = rec})

C28_ResultIsPermutation ==
    /\ [](\A rec \in Range(data) \cup Range(filteredData) :
             Count(filteredData, rec) = (IF Matches(rec) THEN Count(data, rec) ELSE 0))
    /\ [][data' # data => inflight' # inflight]_vars

\* A record that occurs three times in the dataset matches the selection, another
\* record does not, and the sort has changed the order.
C28_Witness ==
    /\ \E rec \in Range(data) : Count(data, rec) = 3 /\ Count(filteredData, rec) = 3
    /\ Selected(filters, ColS)
    /\ Len(filteredData) < Len(data)
    /\ filteredData # ApplySearch(ApplyFilters(data, filters), searchTerm)

\* C29 as stated: there is a line with balanced quoting and more than one quoted
\* comma on which the regex split of the alternate variant puts its field
\* boundaries at other commas than parseCsvLine does. It is evaluated once a run of
\* the parser has returned, over the lines the runs are given and the line
\* "a,a","a,a".
EvenQuotes(ln) == Cardinality({k \in 1..Len(ln) : ln[k] = QUOTE}) % 2 = 0

QuotedCommas(ln) == {k \in 1..Len(ln) : ln[k] = COMMA} \ ScanCuts(ln)

TwoQuotedFields ==
    <<QUOTE, "a", COMMA, "a", QUOTE, COMMA, QUOTE, "a", COMMA, "a", QUOTE>>

MisparsedLines ==
    {ln \in InputLines \cup {TwoQuotedFields} :
        /\ EvenQuotes(ln)
        /\ Cardinality(QuotedCommas(ln)) > 1
        /\ RegexCuts(ln) # ScanCuts(ln)}

C29_RegexMisparses == returned => MisparsedLines # {}

\* C29, amended: on every line with balanced quoting (an even number of double
\* quotes), whatever the number of quoted commas, the regex split puts its field
\* boundaries at the commas where parseCsvLine pushes a value, and the two give
\* the same number of fields; the boundaries differ on lines with an odd number
\* of double quotes only.
C29_SameBoundaries ==
    returned =>
        /\ Len(values) = Cardinality(ScanCuts(line)) + 1
        /\ EvenQuotes(line) =>
              /\ RegexCuts(line) = ScanCuts(line)
              /\ Len(RegexSplit(line)) = Len(values)
        /\ RegexCuts(line) # ScanCuts(line) => ~EvenQuotes(line)

\* The run has returned on a line with two quoted commas and a separating one.
C29_Witness ==
    /\ returned
    /\ line = <<QUOTE, COMMA, COMMA, QUOTE, COMMA>>
    /\ Len(values) = 2
    /\ RegexCuts(line) = {5}

\* C30: the sort is stable: two records of the result sequence whose keys compare
\* as equal (0 on all three levels of the chain for the key T) are in the same
\* relative order as in the dataset.
EqualKeys(rows, rec) ==
    SelectSeq(rows, LAMBDA row : ClaimedCompare(sortKey, row, rec) = 0)

C30_SortStable ==
    \A rec \in Range(filteredData) :
        EqualKeys(filteredData, rec) = EqualKeys(SelectSeq(data, Matches), rec)

\* Sorted by title: records with the same title and different textbooks are in
\* the result, and the sort has changed the order of the records.
C30_Witness ==
    /\ sortKey = ColW
    /\ \E p \in 1..(Len(filteredData) - 1) :
           /\ filteredData[p][ColW] = filteredData[p + 1][ColW]
           /\ filteredData[p][ColT] # filteredData[p + 1][ColT]
    /\ filteredData # SelectSeq(data, Matches)

=============================================================================
